---- MODULE Spec2Model ----
(***************************************************************************)
(* The refresh scheduler of bonos-api (jobs/scheduler.py) with the TTL     *)
(* cache it writes (services/cache.py) and the upstream calls it awaits    *)
(* (services/data912.py, services/docta_bonds.py).                          *)
(*                                                                         *)
(* asyncio runs one coroutine at a time and switches only at an await      *)
(* that really suspends, so one action of this model is one such segment:  *)
(* from the completion of the awaited call up to the next suspension.      *)
(* The positions a loop task can be suspended at are the values of pc.     *)
(* timestamp_utc, the date strings and the market fields other than        *)
(* symbol and c are carried through by the code and read by no property,   *)
(* so they are left out of the values.                                      *)
(***************************************************************************)
EXTENDS Integers, Sequences, FiniteSets, TLC

\* ---------------------------------------------------------------- constants
TTL_MARKET == 120
TTL_YIELDS == 600
TTL_DAILY == 86400
DOCTA_MAX_CONCURRENCY == 8
SLEEP_SECONDS == 5

\* pct_scenarios, in percent
pct_scenarios == <<-10, -5, -2, 2, 5, 10>>

\* ------------------------------------------------------------------- bounds
MaxStarts == 2
MaxTicks == 1
MaxFaults == 1
CallFaults == 1
PoolSymbols == 9

\* ------------------------------------------------------------------- values
None == [none |-> TRUE]

DOCTA_CONFIG == "docta_config"
MARKET_SUMMARY == "market_summary"
DOCTA_YIELDS == "docta_yields"
DOCTA_CASHFLOWS == "docta_cashflows"
DOCTA_HISTORICAL == "docta_historical"
DOCTA_PRICER == "docta_pricer"
CACHE_KEYS ==
  {DOCTA_CONFIG, MARKET_SUMMARY, DOCTA_YIELDS, DOCTA_CASHFLOWS, DOCTA_HISTORICAL, DOCTA_PRICER}

\* A symbol string: a ticker number (0: the empty string), written in lower
\* case or not, with surrounding blanks or not.
Str(n, lower, pad) == [id |-> n, lower |-> lower, pad |-> pad]
Sym(n) == Str(n, FALSE, FALSE)
upper(s) == [s EXCEPT !.lower = FALSE]
strip(s) == [s EXCEPT !.pad = FALSE]
Truthy(s) == s # None /\ (s.id # 0 \/ s.pad)

\* The field c of a market row: missing, a text that is no number, or a number.
NoPrice == [t |-> "none"]
BadPrice == [t |-> "str"]
Price(v) == [t |-> "num", v |-> v]
Row(s, c) == [symbol |-> s, c |-> c]

Tasks == 1..MaxStarts
Tiers == {"market", "yields", "daily"}
Kinds == {"yields", "cashflow", "historical", "pricer"}
KindKey(k) ==
  CASE k = "yields" -> DOCTA_YIELDS
    [] k = "cashflow" -> DOCTA_CASHFLOWS
    [] k = "historical" -> DOCTA_HISTORICAL
    [] k = "pricer" -> DOCTA_PRICER

VARIABLES
  now,        \* time.time()
  ticks,      \* how many times the clock has advanced
  cache,      \* _CACHE
  lastSet,    \* history: per key, the arguments and the time of the last cache_set
  sema,       \* _sema: the free slots
  task,       \* _task: the id of the loop task, 0 for None
  stopEvent,  \* _stop_event
  nstarted,   \* the loop tasks created so far
  tk,         \* per loop task: where it is suspended, and its locals
  faults,     \* the analytics calls that did not return a payload so far
  ev          \* history: what the last step began and ended, in order

vars == <<now, ticks, cache, lastSet, sema, task, stopEvent, nstarted, tk, faults, ev>>

\* ---------------------------------------------------------------- the cache
cache_set(c, key, value, ttl_seconds) ==
  [c EXCEPT ![key] = [value |-> value, expires_at |-> now + ttl_seconds]]

\* variant: an entry is gone at its expiry instant already
cache_get_strict(c, key) ==
  LET item == c[key] IN
  IF item = None THEN None
  ELSE IF now >= item.expires_at THEN None
  ELSE item.value

cache_get(c, key) ==
  LET item == c[key] IN
  IF item = None THEN None
  ELSE IF now > item.expires_at THEN None
  ELSE item.value

cache_is_fresh(c, key) ==
  LET item == c[key] IN item # None /\ now <= item.expires_at

\* variant: a read drops the entry it finds expired
cache_get_evicting(c, key) ==
  IF c[key] # None /\ now > c[key].expires_at THEN [c EXCEPT ![key] = None] ELSE c

\* _CACHE after cache_get and after cache_is_fresh: both only read it
cache_after_get(c, key) == c
cache_after_is_fresh(c, key) == c

\* ------------------------------------------------------------ pure helpers
RECURSIVE SortedById(_)
SortedById(S) ==
  IF S = {} THEN <<>>
  ELSE LET m == CHOOSE x \in S : \A y \in S : x.id <= y.id
       IN <<m>> \o SortedById(S \ {m})

Range(q) == {q[i] : i \in 1..Len(q)}

\* normalize of _refresh_market: symbol upper-cased and stripped, rows whose
\* symbol is empty dropped, the other fields as they came
RECURSIVE normalize(_)
normalize(rows) ==
  IF rows = <<>> THEN <<>>
  ELSE LET r == Head(rows)
           symbol == strip(upper(IF Truthy(r.symbol) THEN r.symbol ELSE Str(0, FALSE, FALSE)))
       IN IF ~Truthy(symbol) THEN normalize(Tail(rows))
          ELSE <<Row(symbol, r.c)>> \o normalize(Tail(rows))

GroupsOf(m) == IF m = None THEN <<>> ELSE m.notes \o m.corp \o m.bonds

_extract_all_symbols_from_market(c) ==
  LET m == cache_get(c, MARKET_SUMMARY)
      rows == GroupsOf(m)
      symbols == {strip(upper(rows[i].symbol)) : i \in {j \in 1..Len(rows) : Truthy(rows[j].symbol)}}
  IN SortedById(symbols)

\* find_price of _refresh_daily_pack: the first row, group by group, whose
\* symbol matches decides: float(c), or None when c is missing or no number
RECURSIVE FirstMatch(_, _)
FirstMatch(rows, sym) ==
  IF rows = <<>> THEN None
  ELSE LET r == Head(rows) IN
       IF upper(IF Truthy(r.symbol) THEN r.symbol ELSE Str(0, FALSE, FALSE)) = upper(sym)
       THEN (IF r.c.t = "num" THEN r.c ELSE None)
       ELSE FirstMatch(Tail(rows), sym)

find_price(market, sym) == FirstMatch(GroupsOf(market), sym)

\* variant: reads the stored entry whatever its expiry
_get_docta_config_stale(c) ==
  LET item == c[DOCTA_CONFIG] IN
  IF item = None THEN [client_id |-> None, client_secret |-> None]
  ELSE [client_id |-> item.value.client_id, client_secret |-> item.value.client_secret]

_get_docta_config(c) ==
  LET cfg == cache_get(c, DOCTA_CONFIG) IN
  IF cfg = None THEN [client_id |-> None, client_secret |-> None]
  ELSE [client_id |-> cfg.client_id, client_secret |-> cfg.client_secret]

\* _get_token up to its raise: the credentials are missing
CredentialsMissing(c) ==
  LET cfg == _get_docta_config(c) IN
  ~Truthy(cfg.client_id) \/ ~Truthy(cfg.client_secret)

\* ------------------------------------------------------- a loop task's state
EmptyMap == [s \in {} |-> None]
MapPut(f, k, v) == [x \in DOMAIN f \cup {k} |-> IF x = k THEN v ELSE f[x]]
PerKind(v) == [k \in Kinds |-> v]

NoTask ==
  [pc |-> "none", stage |-> "warmup", wake |-> 0, cancel |-> FALSE, exit |-> "none",
   notes |-> <<>>, corp |-> <<>>, symbols |-> <<>>, market |-> None,
   st |-> PerKind(EmptyMap), data |-> PerKind(EmptyMap), errors |-> PerKind(EmptyMap),
   scen |-> EmptyMap, warm |-> <<>>]

\* the locals of a tier routine die with it
DropLocals(r) ==
  [r EXCEPT !.notes = <<>>, !.corp = <<>>, !.symbols = <<>>, !.market = None,
            !.st = PerKind(EmptyMap), !.data = PerKind(EmptyMap),
            !.errors = PerKind(EmptyMap), !.scen = EmptyMap]

\* The state one segment of task t works on: its own record, the cache and
\* the history of the step.
World(t) == [t |-> t, tk |-> tk[t], cache |-> cache, lastSet |-> lastSet, ev |-> <<>>]

Emit(w, tier, what, ok) ==
  [w EXCEPT !.ev = Append(@, [task |-> w.t, tier |-> tier, what |-> what, ok |-> ok]),
            !.tk.warm = IF w.tk.stage = "warmup" THEN Append(@, <<what, tier>>) ELSE @]

Begin(w, tier) == Emit(w, tier, "begin", TRUE)
End(w, tier, ok) == [Emit(w, tier, "end", ok) EXCEPT !.tk = DropLocals(@)]

Store(w, key, value, ttl) ==
  [w EXCEPT !.cache = cache_set(w.cache, key, value, ttl),
            !.lastSet[key] = [value |-> value, at |-> now, ttl |-> ttl]]

Finish(w, why) == [w EXCEPT !.tk = [DropLocals(@) EXCEPT !.pc = "done", !.exit = why, !.cancel = FALSE]]

\* --------------------------------------------------------------- _run_loop
\* `except Exception` of the tier routines and of the loop: every exception
\* but the CancelledError of a cancelled task (a BaseException)
\* variant: a handler for another exception class
CatchesNothing(exc) == FALSE

Catches(exc) == exc = "Exception"

\* line 56: the test of the while, then the sleep of line 58
LoopTop(w) ==
  IF stopEvent THEN Finish(w, "stop")
  ELSE [w EXCEPT !.tk.stage = "loop", !.tk.pc = "sleep", !.tk.wake = now + SLEEP_SECONDS]

\* lines 74-78: an exception that reaches _run_loop. The warm-up of lines
\* 52-54 is outside the try.
_run_loop_except(w, exc) ==
  IF w.tk.stage = "warmup" THEN Finish(w, IF exc = "CancelledError" THEN "cancelled" ELSE "error")
  ELSE IF exc = "CancelledError" THEN Finish(w, "cancelled")
  ELSE IF Catches(exc) THEN LoopTop(w)
  ELSE Finish(w, "error")

\* ------------------------------------------------------ _refresh_daily_pack
DailyExcept(w, exc) ==
  IF Catches(exc) THEN LoopTop(End(w, "daily", FALSE))
  ELSE _run_loop_except([w EXCEPT !.tk = DropLocals(@)], exc)

Waiting(symbols) == [s \in Range(symbols) |-> "wait"]

Envelope(r, k) == [data |-> r.data[k], errors |-> r.errors[k]]

\* lines 268-270, then the routine returns
DailyWrite(w) ==
  LET w1 == Store(w, DOCTA_CASHFLOWS, Envelope(w.tk, "cashflow"), TTL_DAILY)
      w2 == Store(w1, DOCTA_HISTORICAL, Envelope(w.tk, "historical"), TTL_DAILY)
      w3 == Store(w2, DOCTA_PRICER, Envelope(w.tk, "pricer"), TTL_DAILY)
  IN LoopTop(End(w3, "daily", TRUE))

\* the pass after pass k of the daily pack (lines 264-266)
NextPass(k) ==
  CASE k = "cashflow" -> "historical"
    [] k = "historical" -> "pricer"
    [] k = "pricer" -> "write"

\* asyncio.gather of the workers of pass k: with no symbol it returns at once
RECURSIVE DailyGather(_, _)
DailyGather(w, k) ==
  IF k = "write" THEN DailyWrite(w)
  ELSE IF w.tk.symbols = <<>> THEN DailyGather(w, NextPass(k))
  ELSE [w EXCEPT !.tk.pc = "gather_" \o k, !.tk.st[k] = Waiting(w.tk.symbols)]

\* lines 178-189 and 264, after the token came
DailyFanOut(w) ==
  LET w1 == [w EXCEPT !.tk.symbols = _extract_all_symbols_from_market(w.cache),
                      !.tk.market = cache_get(w.cache, MARKET_SUMMARY)]
  IN DailyGather(w1, "cashflow")

\* lines 176-177: up to the await of get_access_token
_refresh_daily_pack(w) ==
  LET w1 == Begin(w, "daily") IN
  IF CredentialsMissing(w1.cache) THEN DailyExcept(w1, "Exception")
  ELSE [w1 EXCEPT !.tk.pc = "token_daily"]

\* ---------------------------------------------------------- _refresh_yields
\* lines 68-72 of the loop, and line 54 of the warm-up
AfterYields(w) ==
  IF w.tk.stage = "warmup" THEN _refresh_daily_pack(w)
  ELSE IF \/ ~cache_is_fresh(w.cache, DOCTA_CASHFLOWS)
          \/ ~cache_is_fresh(w.cache, DOCTA_HISTORICAL)
          \/ ~cache_is_fresh(w.cache, DOCTA_PRICER)
       THEN _refresh_daily_pack(w)
       ELSE LoopTop(w)

YieldsExcept(w, exc) ==
  IF Catches(exc) THEN AfterYields(End(w, "yields", FALSE))
  ELSE _run_loop_except([w EXCEPT !.tk = DropLocals(@)], exc)

\* variant: returns without the cache_set
YieldsWrite_unstored(w) == AfterYields(End(w, "yields", TRUE))

\* line 166, then the routine returns
YieldsWrite(w) ==
  AfterYields(End(Store(w, DOCTA_YIELDS, Envelope(w.tk, "yields"), TTL_YIELDS), "yields", TRUE))

\* variant: the envelope is stored before the workers fill it
YieldsFanOut_stored_first(w) ==
  LET w1 == [w EXCEPT !.tk.symbols = _extract_all_symbols_from_market(w.cache)]
      w2 == Store(w1, DOCTA_YIELDS, Envelope(w1.tk, "yields"), TTL_YIELDS)
  IN IF w1.tk.symbols = <<>> THEN YieldsWrite(w1)
     ELSE [w2 EXCEPT !.tk.pc = "gather_yields", !.tk.st["yields"] = Waiting(w1.tk.symbols)]

\* lines 147-165, after the token came
YieldsFanOut(w) ==
  LET w1 == [w EXCEPT !.tk.symbols = _extract_all_symbols_from_market(w.cache)] IN
  IF w1.tk.symbols = <<>> THEN YieldsWrite(w1)
  ELSE [w1 EXCEPT !.tk.pc = "gather_yields", !.tk.st["yields"] = Waiting(w1.tk.symbols)]

\* lines 145-146: up to the await of get_access_token
_refresh_yields(w) ==
  LET w1 == Begin(w, "yields") IN
  IF CredentialsMissing(w1.cache) THEN YieldsExcept(w1, "Exception")
  ELSE [w1 EXCEPT !.tk.pc = "token_yields"]

\* ---------------------------------------------------------- _refresh_market
\* variant: the warm-up goes from the market to the daily pack
AfterMarket_daily_first(w) ==
  IF w.tk.stage = "warmup" THEN _refresh_daily_pack(w)
  ELSE IF ~cache_is_fresh(w.cache, DOCTA_YIELDS) THEN _refresh_yields(w)
  ELSE AfterYields(w)

\* lines 64-66 of the loop, and line 53 of the warm-up
AfterMarket(w) ==
  IF w.tk.stage = "warmup" THEN _refresh_yields(w)
  ELSE IF ~cache_is_fresh(w.cache, DOCTA_YIELDS) THEN _refresh_yields(w)
  ELSE AfterYields(w)

MarketExcept(w, exc) ==
  IF Catches(exc) THEN AfterMarket(End(w, "market", FALSE))
  ELSE _run_loop_except([w EXCEPT !.tk = DropLocals(@)], exc)

\* lines 108-117
MarketWrite(w, bonds) ==
  LET payload == [notes |-> normalize(w.tk.notes), corp |-> normalize(w.tk.corp),
                  bonds |-> normalize(bonds),
                  counts |-> [notes |-> Len(w.tk.notes), corp |-> Len(w.tk.corp),
                              bonds |-> Len(bonds)]]
  IN AfterMarket(End(Store(w, MARKET_SUMMARY, payload, TTL_MARKET), "market", TRUE))

\* lines 81-82: up to the await of the first fetch
_refresh_market(w) == [Begin(w, "market") EXCEPT !.tk.pc = "fetch_notes"]

\* variant: the market is refreshed on every poll
AfterSleep_timer(w) == _refresh_market(w)

\* lines 60-62, after the sleep
AfterSleep(w) ==
  IF ~cache_is_fresh(w.cache, MARKET_SUMMARY) THEN _refresh_market(w)
  ELSE AfterMarket(w)

\* ------------------------------------------------------------ the semaphore
sema_locked(v) == v <= 0
sema_acquire(v) == v - 1
sema_release(v) == v + 1
\* variant: the slot goes back only when the call did not raise
worker_exit_unless_raised(v, outcome) == IF outcome = "raise" THEN v ELSE sema_release(v)

\* `async with _sema` leaves through release() however the body ends
worker_exit(v, outcome) == sema_release(v)

\* ------------------------------------------------------- the upstream calls
\* What a call of the analytics provider brings: a payload, None on a 404,
\* or an exception (raise_for_status, a timeout).
Outcomes == {"ok", "none", "raise"}
Payload(k, sym, value) == [kind |-> k, symbol |-> sym, value |-> value]
Message(k, sym) == [error |-> k, symbol |-> sym]

\* The double px * (1.0 + p) of line 239, as binary floating point gives it
\* for the prices 50.0 and 100.0 of the feeds: the decimal product in
\* hundredths, and by how many units in the last place the double lies above
\* the double nearest to that product. 1.0 + 0.10 is a double above 1.1 and
\* the product rounds up: 100.0 * (1.0 + 0.10) is 110.00000000000001.
FloatUlps(px, p) == IF px \in {50, 100} /\ p = 10 THEN 1 ELSE 0

\* variant: the offset is added to the price
ScenarioValue_additive(px, p) == [hundredths |-> 100 * px + p, ulps |-> 0]

ScenarioValue(px, p) == [hundredths |-> px * (100 + p), ulps |-> FloatUlps(px, p)]

Live(t) == tk[t].pc \notin {"none", "done"}
Runnable(t) == Live(t) /\ ~tk[t].cancel
InCall(r) == {<<k, s>> \in {<<k, s>> \in Kinds \X Range(r.symbols) : TRUE} : r.st[k] # EmptyMap /\ r.st[k][s] = "call"}
\* variant: one finished worker is enough
SettledSome(r, k) == \E s \in DOMAIN r.st[k] : r.st[k][s] \notin {"wait", "call"}

Settled(r, k) == \A s \in DOMAIN r.st[k] : r.st[k][s] \notin {"wait", "call"}

Commit(w) ==
  /\ tk' = [tk EXCEPT ![w.t] = w.tk]
  /\ cache' = w.cache
  /\ lastSet' = w.lastSet
  /\ ev' = w.ev

\* ---------------------------------------------------------------- lifecycle
start_scheduler ==
  /\ nstarted < MaxStarts
  /\ stopEvent' = FALSE
  /\ nstarted' = nstarted + 1
  /\ task' = nstarted + 1
  /\ tk' = [tk EXCEPT ![nstarted + 1].pc = "new"]
  /\ ev' = <<>>
  /\ UNCHANGED <<now, ticks, cache, lastSet, sema, faults>>

\* start_scheduler as a startup hook calls it: once
Startup ==
  /\ nstarted = 0
  /\ start_scheduler

stop_scheduler ==
  /\ stopEvent' = TRUE
  /\ task' = 0
  /\ tk' = IF task # 0 /\ Live(task) THEN [tk EXCEPT ![task].cancel = TRUE] ELSE tk
  /\ ev' = <<>>
  /\ UNCHANGED <<now, ticks, cache, lastSet, sema, nstarted, faults>>

\* the cancelled task is resumed with CancelledError at its await; the
\* workers of its gather are cancelled with it and leave their `async with`
Cancelled(t) ==
  /\ Live(t) /\ tk[t].cancel
  /\ LET r == tk[t]
         w == [World(t) EXCEPT !.tk.cancel = FALSE]
         exc == "CancelledError"
     IN /\ sema' = sema + Cardinality(InCall(r))
        /\ Commit(CASE r.pc = "new" -> Finish(w, "cancelled")
                    [] r.pc \in {"fetch_notes", "fetch_corp", "fetch_bonds"} -> MarketExcept(w, exc)
                    [] r.pc \in {"token_yields", "gather_yields"} -> YieldsExcept(w, exc)
                    [] r.pc = "sleep" -> _run_loop_except(w, exc)
                    [] OTHER -> DailyExcept(w, exc))
  /\ UNCHANGED <<now, ticks, task, stopEvent, nstarted, faults>>

\* --------------------------------------------------------- the task's steps
\* the first step of _run_loop: line 52
TaskBegin(t) ==
  /\ Runnable(t) /\ tk[t].pc = "new"
  /\ Commit(_refresh_market(World(t)))
  /\ UNCHANGED <<now, ticks, sema, task, stopEvent, nstarted, faults>>

\* fetch_data912 returns the rows of a group (lines 82-84); feed gives, per
\* group, the row lists the aggregator may answer
FetchReturns(t, feed) ==
  /\ Runnable(t) /\ tk[t].pc \in {"fetch_notes", "fetch_corp", "fetch_bonds"}
  /\ LET w == World(t) IN
     CASE tk[t].pc = "fetch_notes" ->
            \E rows \in feed.notes : Commit([w EXCEPT !.tk.notes = rows, !.tk.pc = "fetch_corp"])
       [] tk[t].pc = "fetch_corp" ->
            \E rows \in feed.corp : Commit([w EXCEPT !.tk.corp = rows, !.tk.pc = "fetch_bonds"])
       [] tk[t].pc = "fetch_bonds" ->
            \E rows \in feed.bonds : Commit(MarketWrite(w, rows))
  /\ UNCHANGED <<now, ticks, sema, task, stopEvent, nstarted, faults>>

FetchRaises(t) ==
  /\ Runnable(t) /\ tk[t].pc \in {"fetch_notes", "fetch_corp", "fetch_bonds"}
  /\ Commit(MarketExcept(World(t), "Exception"))
  /\ UNCHANGED <<now, ticks, sema, task, stopEvent, nstarted, faults>>

\* get_access_token returns (lines 129, 146, 177)
TokenReturns(t) ==
  /\ Runnable(t) /\ tk[t].pc \in {"token_yields", "token_daily"}
  /\ Commit(IF tk[t].pc = "token_yields" THEN YieldsFanOut(World(t)) ELSE DailyFanOut(World(t)))
  /\ UNCHANGED <<now, ticks, sema, task, stopEvent, nstarted, faults>>

TokenRaises(t) ==
  /\ Runnable(t) /\ tk[t].pc \in {"token_yields", "token_daily"}
  /\ Commit(IF tk[t].pc = "token_yields" THEN YieldsExcept(World(t), "Exception")
            ELSE DailyExcept(World(t), "Exception"))
  /\ UNCHANGED <<now, ticks, sema, task, stopEvent, nstarted, faults>>

\* asyncio.sleep(5) returns (line 58)
SleepReturns(t) ==
  /\ Runnable(t) /\ tk[t].pc = "sleep" /\ now >= tk[t].wake
  /\ Commit(AfterSleep([World(t) EXCEPT !.tk.wake = 0]))
  /\ UNCHANGED <<now, ticks, sema, task, stopEvent, nstarted, faults>>

\* -------------------------------------------------------------- the workers
\* A worker enters `async with _sema` and calls out. The workers of one
\* gather were created in the order of symbols and queue in that order.
\* pricer_worker returns at once, slot released, when find_price gives None.
WorkerEnters(t, k, s) ==
  /\ Runnable(t) /\ tk[t].pc = "gather_" \o k
  /\ s \in DOMAIN tk[t].st[k] /\ tk[t].st[k][s] = "wait"
  /\ \A s2 \in DOMAIN tk[t].st[k] : tk[t].st[k][s2] = "wait" => s.id <= s2.id
  /\ ~sema_locked(sema)
  /\ IF k = "pricer" /\ find_price(tk[t].market, s) = None
     THEN /\ tk' = [tk EXCEPT ![t].st[k][s] = "skip"]
          /\ sema' = sema
     ELSE /\ tk' = [tk EXCEPT ![t].st[k][s] = "call",
                              ![t].scen = IF k = "pricer" THEN MapPut(@, s, <<>>) ELSE @]
          /\ sema' = sema_acquire(sema)
  /\ ev' = <<>>
  /\ UNCHANGED <<now, ticks, cache, lastSet, task, stopEvent, nstarted, faults>>

\* variant: an exception empties the data collected so far
SimpleWorker_wiping(r, k, s, o) ==
  CASE o = "ok" -> [r EXCEPT !.data[k] = MapPut(@, s, Payload(k, s, None)), !.st[k][s] = "ok"]
    [] o = "none" -> [r EXCEPT !.st[k][s] = "none"]
    [] o = "raise" -> [r EXCEPT !.errors[k] = MapPut(@, s, Message(k, s)), !.st[k][s] = "err",
                                !.data[k] = EmptyMap]

\* worker, cashflow_worker, hist_worker: the call ends (lines 157-163, 211-217, 221-227)
SimpleWorker(r, k, s, o) ==
  CASE o = "ok" -> [r EXCEPT !.data[k] = MapPut(@, s, Payload(k, s, None)), !.st[k][s] = "ok"]
    [] o = "none" -> [r EXCEPT !.st[k][s] = "none"]
    [] o = "raise" -> [r EXCEPT !.errors[k] = MapPut(@, s, Message(k, s)), !.st[k][s] = "err"]

\* variant: the data entry is filled scenario by scenario
PricerWorker_partial(r, s, o) ==
  LET k == "pricer"
      px == find_price(r.market, s).v
      p == pct_scenarios[Len(r.scen[s]) + 1]
      val == ScenarioValue(px, p)
      res == IF o = "ok" THEN Payload(k, s, val) ELSE None
      scenarios == Append(r.scen[s], [pct |-> p, input_dirty_price |-> val, result |-> res])
      rest == [x \in DOMAIN r.scen \ {s} |-> r.scen[x]]
      filled == MapPut(r.data[k], s, [base_price |-> px, scenarios |-> scenarios])
  IN IF o = "raise"
     THEN [r EXCEPT !.errors[k] = MapPut(@, s, Message(k, s)), !.st[k][s] = "err", !.scen = rest]
     ELSE IF Len(scenarios) < Len(pct_scenarios)
     THEN [r EXCEPT !.scen[s] = scenarios, !.data[k] = filled]
     ELSE [r EXCEPT !.data[k] = filled, !.st[k][s] = "ok", !.scen = rest]

\* pricer_worker: one docta_post_pricer call ends (lines 238-261)
PricerWorker(r, s, o) ==
  LET k == "pricer"
      px == find_price(r.market, s).v
      p == pct_scenarios[Len(r.scen[s]) + 1]
      val == ScenarioValue(px, p)
      res == IF o = "ok" THEN Payload(k, s, val) ELSE None
      scenarios == Append(r.scen[s], [pct |-> p, input_dirty_price |-> val, result |-> res])
      rest == [x \in DOMAIN r.scen \ {s} |-> r.scen[x]]
  IN IF o = "raise"
     THEN [r EXCEPT !.errors[k] = MapPut(@, s, Message(k, s)), !.st[k][s] = "err", !.scen = rest]
     ELSE IF Len(scenarios) < Len(pct_scenarios)
     THEN [r EXCEPT !.scen[s] = scenarios]
     ELSE [r EXCEPT !.data[k] = MapPut(@, s, [base_price |-> px, scenarios |-> scenarios]),
                    !.st[k][s] = "ok", !.scen = rest]

CallEnds(t, k, s, o) ==
  /\ Runnable(t) /\ tk[t].pc = "gather_" \o k
  /\ s \in DOMAIN tk[t].st[k] /\ tk[t].st[k][s] = "call"
  /\ LET r == IF k = "pricer" THEN PricerWorker(tk[t], s, o) ELSE SimpleWorker(tk[t], k, s, o)
     IN /\ tk' = [tk EXCEPT ![t] = r]
        /\ sema' = IF r.st[k][s] = "call" THEN sema ELSE worker_exit(sema, o)
  /\ faults' = IF o = "ok" THEN faults ELSE faults + 1
  /\ ev' = <<>>
  /\ UNCHANGED <<now, ticks, cache, lastSet, task, stopEvent, nstarted>>

\* asyncio.gather returns: every worker of the pass has ended
GatherReturns(t) ==
  /\ Runnable(t)
  /\ \E k \in Kinds :
       /\ tk[t].pc = "gather_" \o k
       /\ Settled(tk[t], k)
       /\ Commit(IF k = "yields" THEN YieldsWrite(World(t)) ELSE DailyGather(World(t), NextPass(k)))
  /\ UNCHANGED <<now, ticks, sema, task, stopEvent, nstarted, faults>>

\* ---------------------------------------------------------- the environment
Jumps == {SLEEP_SECONDS, TTL_MARKET, TTL_YIELDS, TTL_DAILY}

Tick(d) ==
  /\ ticks < MaxTicks
  /\ now' = now + d
  /\ ticks' = ticks + 1
  /\ ev' = <<>>
  /\ UNCHANGED <<cache, lastSet, sema, task, stopEvent, nstarted, tk, faults>>

\* docta_config is written from outside the scheduler, through cache_set
Credentials == [client_id |-> Sym(1), client_secret |-> Sym(2)]
NoClientId == [client_id |-> Sym(0), client_secret |-> Sym(2)]
ConfigWrites == {<<Credentials, 0>>, <<Credentials, TTL_DAILY>>, <<NoClientId, TTL_DAILY>>}

PopulateConfig(cfg, ttl) ==
  /\ cache' = cache_set(cache, DOCTA_CONFIG, cfg, ttl)
  /\ lastSet' = [lastSet EXCEPT ![DOCTA_CONFIG] = [value |-> cfg, at |-> now, ttl |-> ttl]]
  /\ ev' = <<>>
  /\ UNCHANGED <<now, ticks, sema, task, stopEvent, nstarted, tk, faults>>

\* The cache module called from anywhere: cache_set, cache_get and
\* cache_is_fresh on a key; ev records the read and what it reported.
ApiKeys == {DOCTA_CONFIG, MARKET_SUMMARY}
ApiValues == {Credentials, NoClientId}
ApiTtls == {0, TTL_MARKET}

Set(key, value, ttl) ==
  /\ cache' = cache_set(cache, key, value, ttl)
  /\ lastSet' = [lastSet EXCEPT ![key] = [value |-> value, at |-> now, ttl |-> ttl]]
  /\ ev' = <<>>
  /\ UNCHANGED <<now, ticks, sema, task, stopEvent, nstarted, tk, faults>>

Get(key) ==
  /\ cache' = cache_after_get(cache, key)
  /\ ev' = <<[task |-> 0, tier |-> key, what |-> "get", ok |-> cache_get(cache, key) # None]>>
  /\ UNCHANGED <<now, ticks, lastSet, sema, task, stopEvent, nstarted, tk, faults>>

IsFresh(key) ==
  /\ cache' = cache_after_is_fresh(cache, key)
  /\ ev' = <<[task |-> 0, tier |-> key, what |-> "is_fresh", ok |-> cache_is_fresh(cache, key)]>>
  /\ UNCHANGED <<now, ticks, lastSet, sema, task, stopEvent, nstarted, tk, faults>>

\* what the market aggregator may answer: one ticker, priced in bonds, and
\* in notes (when listed there) in lower case and without a price
SmallFeed ==
  [notes |-> {<<>>, <<Row(Str(1, TRUE, FALSE), NoPrice)>>},
   corp |-> {<<Row(Str(0, FALSE, TRUE), Price(50))>>},
   bonds |-> {<<Row(Sym(1), Price(100))>>}]

\* two tickers; ticker 2 has a price, ticker 1 has one only when notes does
\* not list it
TwoFeed ==
  [notes |-> {<<>>, <<Row(Str(1, TRUE, FALSE), NoPrice)>>},
   corp |-> {<<Row(Str(0, FALSE, TRUE), Price(50)), Row(Str(2, FALSE, TRUE), Price(100))>>},
   bonds |-> {<<Row(Sym(1), BadPrice)>>}]

\* one ticker without a price
LifeFeed ==
  [notes |-> {<<Row(Sym(1), NoPrice)>>}, corp |-> {<<>>}, bonds |-> {<<>>}]

\* more tickers than the pool has slots; ticker 3 alone has a price
PoolFeed ==
  [notes |-> {[i \in 1..PoolSymbols |-> Row(Sym(i), IF i = 3 THEN Price(100) ELSE NoPrice)]},
   corp |-> {<<>>},
   bonds |-> {<<>>}]

\* what the analytics provider may answer there: no resource for ticker 1,
\* errors for ticker 2, anything for the pricer calls of ticker 3
PoolOutcomes(k, s) ==
  CASE s.id = 1 -> {"ok", "none"}
    [] s.id = 2 -> {"ok", "raise"}
    [] s.id = 3 /\ k = "pricer" -> Outcomes
    [] OTHER -> {"ok"}

\* ------------------------------------------------------- the specifications
Init ==
  /\ now = 0
  /\ ticks = 0
  /\ cache = [k \in CACHE_KEYS |-> None]
  /\ lastSet = [k \in CACHE_KEYS |-> None]
  /\ sema = DOCTA_MAX_CONCURRENCY
  /\ task = 0
  /\ stopEvent = FALSE
  /\ nstarted = 0
  /\ tk = [t \in Tasks |-> NoTask]
  /\ faults = 0
  /\ ev = <<>>

Budget(S, max) == IF faults < max THEN S ELSE {"ok"}

\* The scheduler over time: started when no loop is running, stopped at any
\* moment, the clock advancing, the market fetches and the token call
\* failing at will, an analytics call raising now and then.
Next ==
  \/ Startup
  \/ stop_scheduler
  \/ \E t \in Tasks : Cancelled(t)
  \/ \E t \in Tasks : TaskBegin(t)
  \/ \E t \in Tasks : FetchReturns(t, SmallFeed)
  \/ \E t \in Tasks : FetchRaises(t)
  \/ \E t \in Tasks : TokenReturns(t)
  \/ \E t \in Tasks : TokenRaises(t)
  \/ \E t \in Tasks : SleepReturns(t)
  \/ \E t \in Tasks, k \in Kinds : \E s \in DOMAIN tk[t].st[k] : WorkerEnters(t, k, s)
  \/ \E t \in Tasks, k \in Kinds :
       \E s \in DOMAIN tk[t].st[k], o \in Budget({"ok", "raise"}, MaxFaults) : CallEnds(t, k, s, o)
  \/ \E t \in Tasks : GatherReturns(t)
  \/ \E d \in Jumps : Tick(d)
  \/ \E cw \in ConfigWrites : PopulateConfig(cw[1], cw[2])

Spec == Init /\ [][Next]_vars

\* Two tickers, every analytics call answering as it likes within the budget
\* of faults; the clock jumps past every TTL, so that a second cycle runs.
NextCalls ==
  \/ Startup
  \/ stop_scheduler
  \/ \E t \in Tasks : Cancelled(t)
  \/ \E t \in Tasks : TaskBegin(t)
  \/ \E t \in Tasks : FetchReturns(t, TwoFeed)
  \/ \E t \in Tasks : FetchRaises(t)
  \/ \E t \in Tasks : TokenReturns(t)
  \/ \E t \in Tasks : TokenRaises(t)
  \/ \E t \in Tasks, k \in Kinds : \E s \in DOMAIN tk[t].st[k] : WorkerEnters(t, k, s)
  \/ \E t \in Tasks, k \in Kinds :
       \E s \in DOMAIN tk[t].st[k], o \in Budget(Outcomes, CallFaults) : CallEnds(t, k, s, o)
  \/ \E t \in Tasks : GatherReturns(t)
  \/ \E t \in Tasks : SleepReturns(t)
  \/ Tick(TTL_DAILY + SLEEP_SECONDS)
  \/ PopulateConfig(Credentials, TTL_DAILY)

SpecCalls == Init /\ [][NextCalls]_vars

\* One loop task over more tickers than the pool has slots.
NextPool ==
  \/ Startup
  \/ stop_scheduler
  \/ \E t \in Tasks : Cancelled(t)
  \/ \E t \in Tasks : TaskBegin(t)
  \/ \E t \in Tasks : FetchReturns(t, PoolFeed)
  \/ \E t \in Tasks : TokenReturns(t)
  \/ \E t \in Tasks, k \in Kinds : \E s \in DOMAIN tk[t].st[k] : WorkerEnters(t, k, s)
  \/ \E t \in Tasks, k \in Kinds :
       \E s \in DOMAIN tk[t].st[k] : \E o \in PoolOutcomes(k, s) : CallEnds(t, k, s, o)
  \/ \E t \in Tasks : GatherReturns(t)
  \/ PopulateConfig(Credentials, TTL_DAILY)

SpecPool == Init /\ [][NextPool]_vars

\* start_scheduler and stop_scheduler called in any order: loop tasks may
\* run side by side.
NextLife ==
  \/ start_scheduler
  \/ stop_scheduler
  \/ \E t \in Tasks : Cancelled(t)
  \/ \E t \in Tasks : TaskBegin(t)
  \/ \E t \in Tasks : FetchReturns(t, LifeFeed)
  \/ \E t \in Tasks : FetchRaises(t)
  \/ \E t \in Tasks : TokenReturns(t)
  \/ \E t \in Tasks : TokenRaises(t)
  \/ \E t \in Tasks : SleepReturns(t)
  \/ \E t \in Tasks, k \in Kinds : \E s \in DOMAIN tk[t].st[k] : WorkerEnters(t, k, s)
  \/ \E t \in Tasks, k \in Kinds : \E s \in DOMAIN tk[t].st[k] : CallEnds(t, k, s, "ok")
  \/ \E t \in Tasks : GatherReturns(t)
  \/ Tick(SLEEP_SECONDS)
  \/ PopulateConfig(Credentials, TTL_DAILY)

SpecLife == Init /\ [][NextLife]_vars

\* The cache on its own: writes and reads of two keys while the clock runs.
NextCache ==
  \/ \E key \in ApiKeys, value \in ApiValues, ttl \in ApiTtls : Set(key, value, ttl)
  \/ \E key \in ApiKeys : Get(key)
  \/ \E key \in ApiKeys : IsFresh(key)
  \/ \E d \in {SLEEP_SECONDS, TTL_MARKET} : Tick(d)

SpecCache == Init /\ [][NextCache]_vars


\* ================================================================ properties
Statuses(r, k) == {r.st[k][s] : s \in DOMAIN r.st[k]}
Ended == {"ok", "none", "err", "skip"}
EndedAll(r, k) == DOMAIN r.st[k] = Range(r.symbols) /\ Statuses(r, k) \subseteq Ended
RECURSIVE Sum(_, _)
Sum(f, S) == IF S = {} THEN 0 ELSE LET x == CHOOSE y \in S : TRUE IN f[x] + Sum(f, S \ {x})
InFlight == Sum([t \in Tasks |-> Cardinality(InCall(tk[t]))], Tasks)
Gathering(t) == tk[t].pc \in {"gather_" \o k : k \in Kinds}
Event(t, tier, what, ok) == [task |-> t, tier |-> tier, what |-> what, ok |-> ok]
Events == {ev[i] : i \in 1..Len(ev)}
Written(key) == lastSet[key] # None
LiveUntil(key) == lastSet[key].at + lastSet[key].ttl

\* C1: at no instant are more than DOCTA_MAX_CONCURRENCY analytics calls in
\* flight, whatever the tier or pass they belong to: a worker holds one slot
\* of the pool from before its call until the call has ended, by a return, a
\* None or an exception, so the free slots and the calls in flight always add
\* up to the pool, and with no fan-out running the pool is whole.
C1_PoolBound ==
  /\ InFlight <= DOCTA_MAX_CONCURRENCY
  /\ sema >= 0
  /\ sema + InFlight = DOCTA_MAX_CONCURRENCY
  /\ (\A t \in Tasks : ~Gathering(t)) => sema = DOCTA_MAX_CONCURRENCY

\* the pool is exhausted in the historical pass, a worker waits for a slot,
\* and the cashflow pass before it saw a None and an exception
C1_Witness ==
  \E t \in Tasks :
    /\ tk[t].pc = "gather_historical"
    /\ InFlight = DOCTA_MAX_CONCURRENCY /\ sema = 0
    /\ "wait" \in Statuses(tk[t], "historical")
    /\ {"none", "err"} \subseteq Statuses(tk[t], "cashflow")

\* C2: the daily pack runs its passes one after the other over the universe
\* read at its start: no historical call is dispatched before every cashflow
\* worker has ended, no pricer call before every historical worker has ended,
\* and when the pricer pass is over every symbol of the universe has been
\* taken up by each of the three passes.
C2_PassOrder ==
  \A t \in Tasks :
    LET r == tk[t] IN
    /\ Statuses(r, "historical") \ {"wait"} # {} => EndedAll(r, "cashflow")
    /\ Statuses(r, "pricer") \ {"wait"} # {} => EndedAll(r, "historical")
    /\ r.pc = "gather_historical" => EndedAll(r, "cashflow")
    /\ r.pc = "gather_pricer" => EndedAll(r, "cashflow") /\ EndedAll(r, "historical")
    /\ r.pc = "gather_pricer" /\ Settled(r, "pricer") => EndedAll(r, "pricer")
    /\ Gathering(t) /\ r.pc # "gather_yields" => r.symbols # <<>>

\* a pricer call is in flight after a cashflow call raised and a historical
\* call returned None
C2_Witness ==
  \E t \in Tasks :
    /\ tk[t].pc = "gather_pricer"
    /\ "call" \in Statuses(tk[t], "pricer")
    /\ "err" \in Statuses(tk[t], "cashflow")
    /\ Cardinality(DOMAIN tk[t].st["cashflow"]) = 2

WarmOrder ==
  <<<<"begin", "market">>, <<"end", "market">>, <<"begin", "yields">>, <<"end", "yields">>,
    <<"begin", "daily">>, <<"end", "daily">>>>
IsPrefix(a, b) == Len(a) <= Len(b) /\ a = SubSeq(b, 1, Len(a))
WarmAt(pc) ==
  CASE pc \in {"none", "new"} -> 0
    [] pc \in {"fetch_notes", "fetch_corp", "fetch_bonds"} -> 1
    [] pc \in {"token_yields", "gather_yields"} -> 3
    [] OTHER -> 5

\* C3: a started loop runs exactly one warm-up cycle, market then yields then
\* daily pack, each routine ending (well or not) before the next begins, and
\* the first sleep of the polling loop comes only after the daily pack ended.
C3_WarmupOrder ==
  \A t \in Tasks :
    LET r == tk[t] IN
    /\ IsPrefix(r.warm, WarmOrder)
    /\ r.stage = "loop" => r.warm = WarmOrder
    /\ r.pc = "sleep" => r.stage = "loop"
    /\ r.stage = "warmup" /\ Live(t) => Len(r.warm) = WarmAt(r.pc)

\* the loop sleeps for the first time after a warm-up whose market routine
\* failed
C3_Witness ==
  \E t \in Tasks :
    /\ tk[t].pc = "sleep" /\ tk[t].warm = WarmOrder
    /\ ticks = 0 /\ ~Written(MARKET_SUMMARY) /\ Written(DOCTA_YIELDS)

\* C4: an exception raised inside a refresh never ends the loop: the routine
\* that caught it has ended and the task is at its next await; a task is
\* done only after a stop or a cancellation.
C4_LoopSurvives ==
  /\ \A t \in Tasks :
       /\ tk[t].exit # "error"
       /\ tk[t].pc = "done" => tk[t].exit \in {"stop", "cancelled"}
  /\ \A e \in Events : e.what = "end" /\ ~e.ok => Live(e.task) \/ tk[e.task].exit = "stop"

\* a poll found the market stale, the fetch raised, and the loop sleeps again
C4_Witness ==
  /\ ev = <<Event(1, "market", "end", FALSE)>>
  /\ tk[1].pc = "sleep" /\ tk[1].stage = "loop" /\ ticks > 0

\* C5: a key reads as its last written value, and is fresh, exactly while
\* the clock is not past the instant of that write plus its ttl; from then
\* on, and when it was never written, it reads as absent and is not fresh.
C5_Expiry ==
  \A key \in CACHE_KEYS :
    LET alive == Written(key) /\ now <= LiveUntil(key) IN
    /\ cache_get(cache, key) = IF alive THEN lastSet[key].value ELSE None
    /\ cache_is_fresh(cache, key) = alive

\* the credentials, written with ttl 0, are gone and the market entry is at
\* the very instant of its expiry
C5_Witness ==
  /\ Written(DOCTA_CONFIG) /\ lastSet[DOCTA_CONFIG].ttl = 0 /\ now > LiveUntil(DOCTA_CONFIG)
  /\ Written(MARKET_SUMMARY) /\ now = LiveUntil(MARKET_SUMMARY)

\* C6: in every envelope stored under docta_yields, docta_cashflows,
\* docta_historical or docta_pricer no symbol is a key of both data and
\* errors, whatever the cycles run so far and the order of the workers.
C6_Disjoint ==
  \A k \in Kinds :
    cache[KindKey(k)] # None =>
      DOMAIN cache[KindKey(k)].value.data \cap DOMAIN cache[KindKey(k)].value.errors = {}

\* a second cycle has just stored a yields envelope with a symbol in data and
\* another in errors
C6_Witness ==
  /\ now > 0 /\ Written(DOCTA_YIELDS) /\ lastSet[DOCTA_YIELDS].at = now
  /\ DOMAIN cache[DOCTA_YIELDS].value.data # {}
  /\ DOMAIN cache[DOCTA_YIELDS].value.errors # {}

\* the envelope the outcomes of the yields calls ask for
YieldsExpected(r) ==
  [data |-> [s \in {x \in Range(r.symbols) : r.st["yields"][x] = "ok"} |->
               Payload("yields", s, None)],
   errors |-> [s \in {x \in Range(r.symbols) : r.st["yields"][x] = "err"} |->
                 Message("yields", s)]]

\* C7: when the gather of a yields refresh returns, the envelope stored under
\* docta_yields, with TTL_YIELDS, holds in errors exactly the symbols whose
\* call raised and in data, with its payload, every symbol whose call
\* returned one: a symbol's failure changes nothing for the others and does
\* not keep the envelope from being written.
C7_Isolation ==
  [][\A t \in Tasks :
       tk[t].pc = "gather_yields" /\ tk'[t].pc # "gather_yields" /\ ~tk[t].cancel =>
         /\ cache'[DOCTA_YIELDS] =
              [value |-> YieldsExpected(tk[t]), expires_at |-> now + TTL_YIELDS]
         /\ lastSet'[DOCTA_YIELDS].at = now]_vars

\* the first cycle stored ticker 1 in data and ticker 2, whose call raised,
\* in errors
C7_Witness ==
  /\ now = 0 /\ cache[DOCTA_YIELDS] # None
  /\ cache[DOCTA_YIELDS].value =
       [data |-> MapPut(EmptyMap, Sym(1), Payload("yields", Sym(1), None)),
        errors |-> MapPut(EmptyMap, Sym(2), Message("yields", Sym(2)))]

TierKeys(tier) ==
  CASE tier = "market" -> {MARKET_SUMMARY}
    [] tier = "yields" -> {DOCTA_YIELDS}
    [] tier = "daily" -> {DOCTA_CASHFLOWS, DOCTA_HISTORICAL, DOCTA_PRICER}
Running(t) ==
  CASE tk[t].pc \in {"fetch_notes", "fetch_corp", "fetch_bonds"} -> {"market"}
    [] tk[t].pc \in {"token_yields", "gather_yields"} -> {"yields"}
    [] tk[t].pc \in {"none", "new", "sleep", "done"} -> {}
    [] OTHER -> {"daily"}

\* C8, as stated: whenever a tier's refresh routine has ended, the tier's
\* keys read as non-absent.
C8_FreshOnReturn ==
  \A e \in Events :
    e.what = "end" => \A key \in TierKeys(e.tier) : cache_get(cache, key) # None

\* C8: when a tier's refresh routine ends without having caught an error,
\* each key of the tier was written at that instant, is fresh and reads as
\* non-absent; and a poll runs a tier's routine only if a key of the tier
\* was not fresh.
C8_FreshOnSuccess ==
  /\ \A e \in Events :
       e.what = "end" /\ e.ok =>
         \A key \in TierKeys(e.tier) :
           /\ Written(key) /\ lastSet[key].at = now
           /\ cache_is_fresh(cache, key)
           /\ cache_get(cache, key) # None
  /\ \A t \in Tasks :
       tk[t].stage = "loop" =>
         \A tier \in Running(t) : \E key \in TierKeys(tier) : ~cache_is_fresh(cache, key)

\* the market phase of the warm-up has just ended well, the yields phase
\* waits for its token
C8_Witness ==
  \E t \in Tasks :
    /\ tk[t].stage = "warmup" /\ tk[t].pc = "token_yields"
    /\ Event(t, "market", "end", TRUE) \in Events
    /\ cache_get(cache, MARKET_SUMMARY) # None

\* C9, as stated: from a stop_scheduler on, until the next start_scheduler,
\* no tier refresh routine is started.
C9_NoRefreshAfterStop == stopEvent => \A e \in Events : e.what # "begin"

\* the credentials as _get_token finds them absent: docta_config never
\* written, or past its expiry, or with an empty client_id or client_secret
CredsAbsent ==
  \/ ~Written(DOCTA_CONFIG)
  \/ now > LiveUntil(DOCTA_CONFIG)
  \/ ~Truthy(lastSet[DOCTA_CONFIG].value.client_id)
  \/ ~Truthy(lastSet[DOCTA_CONFIG].value.client_secret)

\* the keys stored by the routines that ended before event i of a step
StoredBefore(events, i) ==
  UNION {TierKeys(events[j].tier) : j \in {x \in 1..(i - 1) : events[x].what = "end" /\ events[x].ok}}

\* C10: a yields or daily-pack refresh that begins with the credentials
\* absent ends at once with the error caught inside the routine: no token or
\* analytics call is made, no slot is taken, and every cache entry keeps the
\* value and the expiry it had when the routine began (the keys that the
\* routine before it in the same cycle stored keep what it stored).
C10_NoCredentials ==
  [][\A i \in 1..Len(ev') :
       CredsAbsent /\ ev'[i].what = "begin" /\ ev'[i].tier \in {"yields", "daily"} =>
         LET t == ev'[i].task IN
         /\ i < Len(ev') /\ ev'[i + 1] = Event(t, ev'[i].tier, "end", FALSE)
         /\ tk'[t].pc \in {"sleep", "done"}
         /\ sema' = sema
         /\ \A key \in CACHE_KEYS \ StoredBefore(ev', i) :
              cache'[key] = cache[key] /\ lastSet'[key] = lastSet[key]]_vars

\* a poll began the yields refresh after the credentials had expired: the
\* routine ended at once and the envelope of the warm-up is still stored
C10_Witness ==
  /\ Written(DOCTA_CONFIG) /\ now > LiveUntil(DOCTA_CONFIG)
  /\ \E i \in 1..Len(ev) :
       /\ ev[i].what = "begin" /\ ev[i].tier = "yields"
       /\ i < Len(ev) /\ ev[i + 1] = Event(ev[i].task, "yields", "end", FALSE)
  /\ cache[DOCTA_YIELDS] # None /\ cache[DOCTA_YIELDS].expires_at < now

\* C11: a read leaves the cache as it is, an expired entry included; a
\* cache_set replaces the entry of its key by the new value with the new
\* expiry and leaves the entry of every other key alone; a key once stored
\* is never removed.
C11_Frame ==
  [][\A key \in CACHE_KEYS :
       /\ lastSet'[key] = lastSet[key] => cache'[key] = cache[key]
       /\ lastSet'[key] # lastSet[key] =>
            cache'[key] = [value |-> lastSet'[key].value, expires_at |-> now + lastSet'[key].ttl]
       /\ cache[key] # None => cache'[key] # None]_vars

\* an expired entry has just been read as absent and is still stored, next
\* to an entry of the other key
C11_Witness ==
  /\ ev = <<[task |-> 0, tier |-> DOCTA_CONFIG, what |-> "get", ok |-> FALSE]>>
  /\ cache[DOCTA_CONFIG] # None /\ now > cache[DOCTA_CONFIG].expires_at
  /\ cache[MARKET_SUMMARY] # None

\* the loop tasks inside the refresh routine of a tier, a cancellation not
\* pending
InProgress(tier) == {t \in Tasks : Runnable(t) /\ tier \in Running(t)}

\* C12, as stated: at any instant at most one execution of each tier's
\* refresh routine is in progress, whatever the calls of start_scheduler and
\* stop_scheduler so far.
C12_NoOverlap == \A tier \in Tiers : Cardinality(InProgress(tier)) <= 1

\* a key is stale: never written, or the clock is past its expiry
Stale(key) == ~Written(key) \/ now > LiveUntil(key)

\* C13: in the polling loop the market refresh begins in exactly the steps
\* in which the sleep returned and market_summary was stale; the yields
\* refresh in exactly the steps in which the market check was passed or the
\* market refresh ended, and docta_yields was stale; the daily pack in
\* exactly the steps in which the yields check was passed or the yields
\* refresh ended, and one of its three keys was stale.
C13_FreshnessDriven ==
  [][\A t \in Tasks :
       tk[t].stage = "loop" =>
         LET woke == /\ tk[t].pc = "sleep" /\ tk'[t] # tk[t]
                     /\ ~tk[t].cancel /\ ~tk'[t].cancel
             begun(tier) == Event(t, tier, "begin", TRUE) \in {ev'[i] : i \in 1..Len(ev')}
             ended(tier) == \E i \in 1..Len(ev') :
                              /\ ev'[i].task = t /\ ev'[i].tier = tier /\ ev'[i].what = "end"
             marketChecked == woke
             yieldsChecked == (marketChecked /\ ~begun("market")) \/ ended("market")
             dailyChecked == (yieldsChecked /\ ~begun("yields")) \/ ended("yields")
         IN /\ begun("market") <=> marketChecked /\ Stale(MARKET_SUMMARY)
            /\ begun("yields") <=> yieldsChecked /\ Stale(DOCTA_YIELDS)
            /\ begun("daily") <=>
                 dailyChecked /\ \E key \in TierKeys("daily") : Stale(key)]_vars

\* a poll passed the market, which was fresh, and began the yields refresh
C13_Witness ==
  \E t \in Tasks :
    /\ tk[t].stage = "loop" /\ tk[t].pc = "token_yields"
    /\ ev = <<Event(t, "yields", "begin", TRUE)>>
    /\ cache_is_fresh(cache, MARKET_SUMMARY)

\* the symbols of a pricer data map that hold a scenario whose call
\* answered None
NoneScenarios(data) ==
  {s \in DOMAIN data : \E i \in 1..Len(data[s].scenarios) : data[s].scenarios[i].result = None}

\* C14, as stated: in every tier a symbol whose analytics call answered None
\* is in neither data nor errors, in the envelope being built and in the
\* envelope stored.
C14_NoneSkipped ==
  /\ \A t \in Tasks, k \in Kinds \ {"pricer"} :
       \A s \in DOMAIN tk[t].st[k] :
         tk[t].st[k][s] = "none" =>
           s \notin DOMAIN tk[t].data[k] /\ s \notin DOMAIN tk[t].errors[k]
  /\ \A t \in Tasks : NoneScenarios(tk[t].data["pricer"]) = {}
  /\ cache[DOCTA_PRICER] # None => NoneScenarios(cache[DOCTA_PRICER].value.data) = {}

\* the envelope of pass k of task t is what was last stored under its key,
\* with TTL_DAILY
PassStored(t, k) ==
  /\ Written(KindKey(k))
  /\ lastSet[KindKey(k)].value = Envelope(tk[t], k)
  /\ lastSet[KindKey(k)].ttl = TTL_DAILY

\* C15, as stated: once the cash-flow pass of a daily pack is over, its
\* envelope is stored under docta_cashflows whatever becomes of the
\* historical and pricer passes, and once the historical pass is over its
\* envelope is stored under docta_historical.
C15_OwnEntry ==
  \A t \in Tasks :
    /\ tk[t].pc \in {"gather_historical", "gather_pricer"} => PassStored(t, "cashflow")
    /\ tk[t].pc = "gather_pricer" => PassStored(t, "historical")

\* the passes whose workers fill the envelopes stored together with kind k
PassesOf(k) == IF k = "yields" THEN {"yields"} ELSE {"cashflow", "historical", "pricer"}
InRoutine(t) == Gathering(t) \/ tk[t].pc \in {"token_yields", "token_daily"}

\* C16: the entry of a tier key changes only in a step of a loop task inside
\* that tier's routine, and then all at once: every worker of the routine
\* has ended, the value stored is the whole envelope they filled, over
\* symbols of the universe only, and the routine is over, so that no worker
\* is left to write into what was stored; in every other step a reader finds
\* the entry as it was. market_summary changes only when the third fetch of
\* a market refresh returns.
C16_WholeEnvelope ==
  [][/\ \A k \in Kinds :
          cache'[KindKey(k)] # cache[KindKey(k)] \/ lastSet'[KindKey(k)] # lastSet[KindKey(k)] =>
            \E t \in Tasks :
              /\ Runnable(t) /\ InRoutine(t)
              /\ \A k2 \in PassesOf(k) : EndedAll(tk[t], k2)
              /\ cache'[KindKey(k)].value = Envelope(tk[t], k)
              /\ DOMAIN tk[t].data[k] \cup DOMAIN tk[t].errors[k] \subseteq Range(tk[t].symbols)
              /\ tk'[t].st[k] = EmptyMap
              /\ Event(t, IF k = "yields" THEN "yields" ELSE "daily", "end", TRUE)
                   \in {ev'[i] : i \in 1..Len(ev')}
     /\ cache'[MARKET_SUMMARY] # cache[MARKET_SUMMARY] =>
          \E t \in Tasks :
            /\ Runnable(t) /\ tk[t].pc = "fetch_bonds"
            /\ Event(t, "market", "end", TRUE) \in {ev'[i] : i \in 1..Len(ev')}]_vars

\* a second cycle is filling a yields envelope, one call still in flight,
\* while the cache holds the whole envelope of the first cycle
C16_Witness ==
  \E t \in Tasks :
    /\ tk[t].pc = "gather_yields" /\ "call" \in Statuses(tk[t], "yields")
    /\ tk[t].data["yields"] # EmptyMap
    /\ cache[DOCTA_YIELDS] # None
    /\ Cardinality(DOMAIN cache[DOCTA_YIELDS].value.data) = 2
    /\ cache[DOCTA_YIELDS].value # Envelope(tk[t], "yields")

\* the symbols of the rows of a stored snapshot, upper-cased and stripped
SnapshotSymbols(m) ==
  {strip(upper(r.symbol)) : r \in {x \in Range(m.notes) \cup Range(m.corp) \cup Range(m.bonds) :
                                     Truthy(x.symbol)}}

RECURSIVE Ascending(_)
Ascending(q) == Len(q) < 2 \/ (q[1].id < q[2].id /\ Ascending(Tail(q)))

\* C17, as stated: at any moment the universe derived from the cache is the
\* sorted list, without repetition, of the upper-cased symbols of the three
\* groups of the snapshot last written under market_summary, so it is the
\* same list from one write of market_summary to the next (and empty before
\* the first).
C17_Universe ==
  LET universe == _extract_all_symbols_from_market(cache) IN
  /\ Ascending(universe)
  /\ Range(universe) =
       IF Written(MARKET_SUMMARY) THEN SnapshotSymbols(lastSet[MARKET_SUMMARY].value) ELSE {}

\* the decimal product px*(1+p), in hundredths, as a double
Exact(px, p) == [hundredths |-> px * (100 + p), ulps |-> 0]
\* the input prices for base price 100, offset by offset: 90.0, 95.0, 98.0,
\* 102.0, 105.0 and 110.00000000000001
Computed(px, p) ==
  IF px = 100 /\ p = 10 THEN [hundredths |-> 11000, ulps |-> 1] ELSE Exact(px, p)
InputPrice(rule, px, p) == IF rule = "exact" THEN Exact(px, p) ELSE Computed(px, p)

\* the scenarios of a symbol follow the offset list, entry by entry, each
\* with the input price of the rule
FollowsOffsets(scenarios, s, px, rule) ==
  /\ Len(scenarios) <= Len(pct_scenarios)
  /\ \A i \in 1..Len(scenarios) :
       /\ scenarios[i].pct = pct_scenarios[i]
       /\ scenarios[i].input_dirty_price = InputPrice(rule, px, pct_scenarios[i])
       /\ \/ scenarios[i].result = None
          \/ scenarios[i].result = Payload("pricer", s, InputPrice(rule, px, pct_scenarios[i]))

\* the pricer pass of every task, for an input price rule
PricerPass(rule) ==
  \A t \in Tasks :
    LET r == tk[t] IN
    \A s \in DOMAIN r.st["pricer"] :
      LET px == find_price(r.market, s)
          status == r.st["pricer"][s] IN
      /\ px = None => status \in {"wait", "skip"}
      /\ status \in {"wait", "skip"} =>
           s \notin DOMAIN r.scen \cup DOMAIN r.data["pricer"] \cup DOMAIN r.errors["pricer"]
      /\ status = "skip" => px = None
      /\ status = "call" =>
           /\ s \in DOMAIN r.scen /\ Len(r.scen[s]) < Len(pct_scenarios)
           /\ FollowsOffsets(r.scen[s], s, px.v, rule)
           /\ s \notin DOMAIN r.data["pricer"] \cup DOMAIN r.errors["pricer"]
      /\ status = "err" => s \in DOMAIN r.errors["pricer"] /\ s \notin DOMAIN r.data["pricer"]
      /\ status = "ok" =>
           /\ s \in DOMAIN r.data["pricer"] /\ s \notin DOMAIN r.errors["pricer"]
           /\ r.data["pricer"][s].base_price = px.v
           /\ Len(r.data["pricer"][s].scenarios) = Len(pct_scenarios)
           /\ FollowsOffsets(r.data["pricer"][s].scenarios, s, px.v, rule)

\* C18, as stated: a priced symbol gets one pricer call per offset, in list
\* order, each with the value px*(1+p) (90 and 110 for base price 100 and
\* offsets -0.10 and 0.10), and its data holds one scenario per offset; an
\* unpriced symbol gets no call and no record; a symbol one of whose calls
\* raised is in errors and not in data.
C18_Scenarios == PricerPass("exact")

\* C18: the same, the value of a call being the floating-point product
\* px * (1.0 + p): for base price 100 the input prices are 90.0, 95.0, 98.0,
\* 102.0, 105.0 and 110.00000000000001.
C18_FloatScenarios == PricerPass("float")

\* the pricer pass is over: ticker 2, priced 100, has its six scenarios, the
\* last with input price 110.00000000000001, and ticker 1, unpriced, was
\* skipped
C18_Witness ==
  \E t \in Tasks :
    /\ tk[t].pc = "gather_pricer" /\ Settled(tk[t], "pricer")
    /\ tk[t].st["pricer"][Sym(1)] = "skip" /\ tk[t].st["pricer"][Sym(2)] = "ok"
    /\ tk[t].data["pricer"][Sym(2)].scenarios[6].input_dirty_price =
         [hundredths |-> 11000, ulps |-> 1]
    /\ tk[t].data["pricer"][Sym(2)].scenarios[1].input_dirty_price =
         [hundredths |-> 9000, ulps |-> 0]

\* the price of the first row, group by group, that matches the symbol and
\* has a numeric price
RECURSIVE FirstNumeric(_, _)
FirstNumeric(rows, sym) ==
  IF rows = <<>> THEN None
  ELSE LET r == Head(rows) IN
       IF Truthy(r.symbol) /\ upper(r.symbol) = upper(sym) /\ r.c.t = "num" THEN r.c
       ELSE FirstNumeric(Tail(rows), sym)

\* C19, as stated: for the snapshot a daily pack works on and every symbol
\* of its universe, find_price gives the price of the first matching row
\* with a numeric price, group by group, and None when there is no such row:
\* a matching row without a numeric price does not hide a later one.
C19_FirstNumeric ==
  \A t \in Tasks :
    tk[t].market # None =>
      \A s \in Range(tk[t].symbols) :
        find_price(tk[t].market, s) = FirstNumeric(GroupsOf(tk[t].market), s)


====
